---- MODULE Spec2Model ----
(***************************************************************************)
(* A model of the ndarray library (src/ndarray.c): the array container,    *)
(* the indexing helpers and the array operations, at the level of the      *)
(* bytes of the data buffer.                                               *)
(*                                                                         *)
(* An array is a record [live, nd, dtype, dimensions, strides, data].      *)
(* dimensions and strides are sequences (axis i of the C code is i+1       *)
(* here), data is the sequence of the buffer's bytes (byte offset o of the *)
(* C code is data[o+1]).  A byte is a triple <<kind, v, k>>: byte k of the *)
(* representation `kind` of the value v.  A byte that was never written is *)
(* UninitByte; a byte read from outside a buffer is OobByte.               *)
(*                                                                         *)
(* uint64_t arithmetic is modelled on the integers: every extent, index    *)
(* and offset of the model stays far below 2^31.                           *)
(***************************************************************************)
EXTENDS Integers, Sequences, FiniteSets, TLC

\* ------------------------------------------------------------------ bounds
MaxRank == 3
MaxDim == 2
MaxElems == 4
MaxSets == 1

\* ---------------------------------------------------------- dtype registry
\* The type tags, as the char codes the C code compares with.
ChD == 100
ChF == 102
ChI == 105
\* An unrecognized tag whose numeric value is below sizeof(uint64_t).
ChRaw == 3

Dtypes == {ChD, ChF, ChI, ChRaw}

calculate_type_size(dtype) ==
    IF dtype = ChD THEN 8
    ELSE IF dtype = ChF THEN 4
    ELSE IF dtype = ChI THEN 8
    ELSE IF dtype < 8 THEN dtype ELSE 1

RECURSIVE calculate_size(_, _)
calculate_size(dims, nd) ==
    IF nd = 0 THEN 1 ELSE calculate_size(dims, nd - 1) * dims[nd]

\* ------------------------------------------------------------------- bytes
UninitByte == <<"U", 0, 0>>
OobByte == <<"X", 0, 0>>

\* A decoded element: ok is FALSE when the bytes are no value of the type
\* read (uninitialized, out of the buffer, or another type's bytes).
Val(v) == [ok |-> TRUE, v |-> v]
Junk == [ok |-> FALSE, v |-> 0]

\* The n bytes of the representation `kind` of val.
Enc(kind, n, val) ==
    [k \in 1..n |-> IF val.ok THEN <<kind, val.v, k - 1>> ELSE <<"J", 0, k - 1>>]

Dec(kind, n, bytes) ==
    IF Len(bytes) = n /\ n > 0 /\ bytes = Enc(kind, n, Val(bytes[1][2]))
    THEN Val(bytes[1][2]) ELSE Junk

\* The representation a caller stores in an array of this dtype.
KindOf(dtype) ==
    IF dtype = ChD THEN "d" ELSE IF dtype = ChF THEN "f"
    ELSE IF dtype = ChI THEN "u" ELSE "r"

\* memcpy-like access to a buffer: bytes outside the buffer are not part
\* of the array (a write there is dropped from data, a read gives OobByte).
ReadBytes(data, off, n) ==
    [k \in 1..n |-> IF off + k >= 1 /\ off + k <= Len(data) THEN data[off + k] ELSE OobByte]

WriteBytes(data, off, bytes) ==
    [k \in 1..Len(data) |->
        IF k - 1 >= off /\ k - 1 < off + Len(bytes) THEN bytes[k - off] ELSE data[k]]

\* ((double*)data)[i], ((float*)data)[i], ((int*)data)[i]
ReadD(data, i) == Dec("d", 8, ReadBytes(data, 8 * i, 8))
ReadF(data, i) == Dec("f", 4, ReadBytes(data, 4 * i, 4))
WriteD(data, i, val) == WriteBytes(data, 8 * i, Enc("d", 8, val))
WriteF(data, i, val) == WriteBytes(data, 4 * i, Enc("f", 4, val))
WriteInt(data, i, val) == WriteBytes(data, 4 * i, Enc("n", 4, val))

\* ---------------------------------------------------------- array container
NullArr ==
    [live |-> FALSE, nd |-> 0, dtype |-> 0, dimensions |-> <<>>, strides |-> <<>>,
     data |-> <<>>]

IsNull(x) == x.nd = 0

\* strides[i-1] of ndarray_create (strides[nd-1] is the element size).
RECURSIVE StrideAt(_, _, _, _)
\* A stride recurrence that multiplies by the axis's own extent.
StrideAt_own_extent(dims, nd, dtype, i) ==
    IF i = nd THEN calculate_type_size(dtype)
    ELSE StrideAt(dims, nd, dtype, i + 1) * dims[i]

StrideAt(dims, nd, dtype, i) ==
    IF i = nd THEN calculate_type_size(dtype)
    ELSE StrideAt(dims, nd, dtype, i + 1) * dims[i + 1]

\* ndarray_create: the buffer is malloc'ed, so its bytes are uninitialized.
ndarray_create(dimensions, nd, dtype) ==
    [live |-> TRUE, nd |-> nd, dtype |-> dtype,
     dimensions |-> [i \in 1..nd |-> dimensions[i]],
     strides |-> [i \in 1..nd |-> StrideAt(dimensions, nd, dtype, i)],
     data |-> [k \in 1..(calculate_size(dimensions, nd) * calculate_type_size(dtype))
                 |-> UninitByte]]

ndarray_size(array) == calculate_size(array.dimensions, array.nd)

\* ---------------------------------------------------------- indexing helpers
\* The offset loop of the get and set helpers, after axes 0 .. n-1.
RECURSIVE OffsetOf(_, _, _)
\* An offset loop that uses the last axis's stride on every axis.
OffsetOf_last_stride(array, idx, n) ==
    IF n = 0 THEN 0 ELSE OffsetOf(array, idx, n - 1) + array.strides[array.nd] * idx[n]

OffsetOf(array, idx, n) ==
    IF n = 0 THEN 0 ELSE OffsetOf(array, idx, n - 1) + array.strides[n] * idx[n]

\* ndarray_get_point returns data + offset; the caller dereferences it as
\* one element.
ndarray_get_point(array, idx) ==
    LET offset == OffsetOf(array, idx, array.nd)
    IN  [offset |-> offset,
         bytes |-> ReadBytes(array.data, offset, calculate_type_size(array.dtype))]

\* ndarray_set_point: memcpy of calculate_type_size(dtype) bytes to data + offset.
ndarray_set_point(array, idx, data_point) ==
    LET offset == OffsetOf(array, idx, array.nd)
        n == calculate_type_size(array.dtype)
    IN  [array EXCEPT !.data = WriteBytes(array.data, offset, SubSeq(data_point, 1, n))]

\* ndarray_set_point_d: a store of one double at data + offset.
ndarray_set_point_d(array, idx, data_point) ==
    LET offset == OffsetOf(array, idx, array.nd)
    IN  [array EXCEPT !.data = WriteBytes(array.data, offset, Enc("d", 8, Val(data_point)))]

\* ------------------------------------------------------------ the operations
\* Every operation yields [ret, out, alloc]: ret is the array returned
\* (NullArr for NULL), out is the caller-supplied result array after the
\* call (NullArr when the caller passed NULL), and alloc tells whether the
\* call reached its ndarray_create.
Returned(result, r) ==
    [ret |-> r, out |-> IF IsNull(result) THEN NullArr ELSE r, alloc |-> IsNull(result)]
Failed(result) == [ret |-> NullArr, out |-> result, alloc |-> FALSE]

AddV(x, y) == IF x.ok /\ y.ok THEN Val(x.v + y.v) ELSE Junk
SubV(x, y) == IF x.ok /\ y.ok THEN Val(x.v - y.v) ELSE Junk
MulV(x, y) == IF x.ok /\ y.ok THEN Val(x.v * y.v) ELSE Junk

\* a->dimensions[1]: for nd = 1 the read is past the end of the dimensions
\* allocation and yields whatever the heap holds there (g).
Dim1(a, g) == IF a.nd >= 2 THEN a.dimensions[2] ELSE g

\* A shape check that looks at the first axis only.
SameShape_first_axis(a, b) == a.dimensions[1] = b.dimensions[1]

\* The extent loop of add, subtract and compare (the ranks are equal here).
SameShape(a, b) == \A i \in 1..a.nd : a.dimensions[i] = b.dimensions[i]

\* The element loop of ndarray_add (sign = 1) and ndarray_subtract
\* (sign = -1): data after iterations 0 .. n-1.
RECURSIVE arith_loop(_, _, _, _, _)
arith_loop(data, a, b, sign, n) ==
    IF n = 0 THEN data
    ELSE LET d == arith_loop(data, a, b, sign, n - 1)
             i == n - 1
         IN  IF a.dtype = ChD
             THEN WriteD(d, i, IF sign = 1 THEN AddV(ReadD(a.data, i), ReadD(b.data, i))
                                           ELSE SubV(ReadD(a.data, i), ReadD(b.data, i)))
             ELSE IF a.dtype = ChF
             THEN WriteF(d, i, IF sign = 1 THEN AddV(ReadF(a.data, i), ReadF(b.data, i))
                                           ELSE SubV(ReadF(a.data, i), ReadF(b.data, i)))
             ELSE d

ndarray_add(result, a, b, g) ==
    IF a.nd # b.nd \/ a.dtype # b.dtype THEN Failed(result)
    ELSE IF ~SameShape(a, b) THEN Failed(result)
    ELSE LET r == IF IsNull(result) THEN ndarray_create(a.dimensions, a.nd, a.dtype)
                  ELSE result
         IN  Returned(result,
                 [r EXCEPT !.data = arith_loop(r.data, a, b, 1, a.dimensions[1] * Dim1(a, g))])

ndarray_subtract(result, a, b, g) ==
    IF a.nd # b.nd \/ a.dtype # b.dtype THEN Failed(result)
    ELSE IF ~SameShape(a, b) THEN Failed(result)
    ELSE LET r == IF IsNull(result) THEN ndarray_create(a.dimensions, a.nd, a.dtype)
                  ELSE result
         IN  Returned(result,
                 [r EXCEPT !.data = arith_loop(r.data, a, b, -1, a.dimensions[1] * Dim1(a, g))])

\* The k loop of ndarray_dot: sum after k = 0 .. n-1.
RECURSIVE dot_sum(_, _, _, _, _)
dot_sum(a, b, i, j, n) ==
    IF n = 0 THEN Val(0)
    ELSE LET s == dot_sum(a, b, i, j, n - 1)
             k == n - 1
         IN  IF a.dtype = ChD
             THEN AddV(s, MulV(ReadD(a.data, i * a.dimensions[2] + k),
                               ReadD(b.data, k * b.dimensions[2] + j)))
             ELSE IF a.dtype = ChF
             THEN AddV(s, MulV(ReadF(a.data, i * a.dimensions[2] + k),
                               ReadF(b.data, k * b.dimensions[2] + j)))
             ELSE s

\* The i, j loops of ndarray_dot, flattened: data after the first n cells.
RECURSIVE dot_loop(_, _, _, _)
dot_loop(data, a, b, n) ==
    IF n = 0 THEN data
    ELSE LET d == dot_loop(data, a, b, n - 1)
             i == (n - 1) \div b.dimensions[2]
             j == (n - 1) % b.dimensions[2]
             sum == dot_sum(a, b, i, j, a.dimensions[2])
         IN  IF a.dtype = ChD THEN WriteD(d, i * b.dimensions[2] + j, sum)
             ELSE IF a.dtype = ChF THEN WriteF(d, i * b.dimensions[2] + j, sum)
             ELSE d

ndarray_dot(result, a, b) ==
    IF a.nd # 2 \/ b.nd # 2 \/ a.dtype # b.dtype THEN Failed(result)
    ELSE IF a.dimensions[2] # b.dimensions[1] THEN Failed(result)
    ELSE LET r == IF IsNull(result) THEN ndarray_create(a.dimensions, a.nd, a.dtype)
                  ELSE result
         IN  Returned(result,
                 [r EXCEPT !.data = dot_loop(r.data, a, b, a.dimensions[1] * b.dimensions[2])])

Max(x, y) == IF x > y THEN x ELSE y

\* val_a / val_b of ndarray_broadcast_add.
bcast_val(x, i, j) ==
    IF i < x.dimensions[1] /\ j < x.dimensions[2]
    THEN IF x.dtype = ChD THEN ReadD(x.data, i * x.dimensions[2] + j)
                          ELSE ReadF(x.data, i * x.dimensions[2] + j)
    ELSE Val(0)

RECURSIVE bcast_loop(_, _, _, _, _)
bcast_loop(data, a, b, cols, n) ==
    IF n = 0 THEN data
    ELSE LET d == bcast_loop(data, a, b, cols, n - 1)
             i == (n - 1) \div cols
             j == (n - 1) % cols
             v == AddV(bcast_val(a, i, j), bcast_val(b, i, j))
         IN  IF a.dtype = ChD THEN WriteD(d, i * cols + j, v)
             ELSE IF a.dtype = ChF THEN WriteF(d, i * cols + j, v)
             ELSE d

ndarray_broadcast_add(result, a, b) ==
    IF a.nd # 2 \/ b.nd # 2 \/ a.dtype # b.dtype THEN Failed(result)
    ELSE LET rows == Max(a.dimensions[1], b.dimensions[1])
             cols == Max(a.dimensions[2], b.dimensions[2])
             r == IF IsNull(result) THEN ndarray_create(a.dimensions, a.nd, a.dtype)
                  ELSE result
         IN  Returned(result, [r EXCEPT !.data = bcast_loop(r.data, a, b, cols, rows * cols)])

CmpOps == {">", "<", "="}

cmp_val(x, i) == IF x.dtype = ChD THEN ReadD(x.data, i) ELSE ReadF(x.data, i)

Truth(x, y, op) ==
    IF ~(x.ok /\ y.ok) THEN Junk
    ELSE IF op = ">" THEN Val(IF x.v > y.v THEN 1 ELSE 0)
    ELSE IF op = "<" THEN Val(IF x.v < y.v THEN 1 ELSE 0)
    ELSE Val(IF x.v = y.v THEN 1 ELSE 0)

RECURSIVE cmp_loop(_, _, _, _, _)
cmp_loop(data, a, b, op, n) ==
    IF n = 0 THEN data
    ELSE WriteInt(cmp_loop(data, a, b, op, n - 1), n - 1,
                  Truth(cmp_val(a, n - 1), cmp_val(b, n - 1), op))

\* ndarray_compare: the operator is looked at inside the element loop; the
\* default case releases result (ndarray_free) and returns NULL.
ndarray_compare(result, a, b, op, g) ==
    IF a.nd # b.nd \/ a.dtype # b.dtype THEN Failed(result)
    ELSE IF ~SameShape(a, b) THEN Failed(result)
    ELSE LET r == IF IsNull(result) THEN ndarray_create(a.dimensions, a.nd, a.dtype)
                  ELSE result
             n == a.dimensions[1] * Dim1(a, g)
         IN  IF n > 0 /\ op \notin CmpOps
             THEN [ret |-> NullArr,
                   out |-> IF IsNull(result) THEN NullArr ELSE [result EXCEPT !.live = FALSE],
                   alloc |-> IsNull(result)]
             ELSE Returned(result, [r EXCEPT !.data = cmp_loop(r.data, a, b, op, n)])

\* dst[i] = src[j] through double* (8 bytes) or float* (4 bytes): the bytes
\* are moved as they are.
CopyD(dst, i, src, j) == WriteBytes(dst, 8 * i, ReadBytes(src, 8 * j, 8))
CopyF(dst, i, src, j) == WriteBytes(dst, 4 * i, ReadBytes(src, 4 * j, 4))

RECURSIVE transpose_loop(_, _, _)
transpose_loop(data, array, n) ==
    IF n = 0 THEN data
    ELSE LET d == transpose_loop(data, array, n - 1)
             i == (n - 1) \div array.dimensions[2]
             j == (n - 1) % array.dimensions[2]
         IN  IF array.dtype = ChD
             THEN CopyD(d, j * array.dimensions[1] + i, array.data, i * array.dimensions[2] + j)
             ELSE IF array.dtype = ChF
             THEN CopyF(d, j * array.dimensions[1] + i, array.data, i * array.dimensions[2] + j)
             ELSE d

ndarray_transpose(array) ==
    IF array.nd # 2 THEN NullArr
    ELSE LET transposed == ndarray_create(<<array.dimensions[2], array.dimensions[1]>>, 2,
                                          array.dtype)
         IN  [transposed EXCEPT !.data =
                 transpose_loop(transposed.data, array,
                                array.dimensions[1] * array.dimensions[2])]

\* indices[i] <-> indices[j] (0-based i, j).
Swap(indices, i, j) == [indices EXCEPT ![i + 1] = indices[j + 1], ![j + 1] = indices[i + 1]]

\* The shuffle of ndarray_subsample after its first n iterations; draws[i+1]
\* is rand() % dimensions[0] of iteration i.
RECURSIVE shuffle(_, _, _)
shuffle(indices, draws, n) ==
    IF n = 0 THEN indices ELSE Swap(shuffle(indices, draws, n - 1), n - 1, draws[n])

RECURSIVE subsample_loop(_, _, _, _, _)
subsample_loop(data, array, indices, d1, n) ==
    IF n = 0 THEN data
    ELSE LET d == subsample_loop(data, array, indices, d1, n - 1)
             i == (n - 1) \div d1
             j == (n - 1) % d1
         IN  IF array.dtype = ChD
             THEN CopyD(d, i * d1 + j, array.data, indices[i + 1] * d1 + j)
             ELSE IF array.dtype = ChF
             THEN CopyF(d, i * d1 + j, array.data, indices[i + 1] * d1 + j)
             ELSE d

\* ndarray_subsample yields the array returned and the shuffled index table.
ndarray_subsample(array, n_samples, draws, g) ==
    IF n_samples > array.dimensions[1] THEN [ret |-> NullArr, indices |-> <<>>]
    ELSE LET new_dims == [i \in 1..array.nd |->
                             IF i = 1 THEN n_samples ELSE array.dimensions[i]]
             subsampled == ndarray_create(new_dims, array.nd, array.dtype)
             indices == shuffle([i \in 1..array.dimensions[1] |-> i - 1], draws,
                                array.dimensions[1])
             d1 == Dim1(array, g)
         IN  [ret |-> [subsampled EXCEPT !.data =
                          subsample_loop(subsampled.data, array, indices, d1, n_samples * d1)],
              indices |-> indices]

\* The index decomposition of ndarray_concat: remainder after axes 0 .. n-1,
\* and indices[i] (0-based i), both computed with result->strides.
RECURSIVE concat_remainder(_, _, _)
concat_remainder(strides, linear_idx, n) ==
    IF n = 0 THEN linear_idx ELSE concat_remainder(strides, linear_idx, n - 1) % strides[n]

concat_index(strides, linear_idx, i) ==
    concat_remainder(strides, linear_idx, i) \div strides[i + 1]

RECURSIVE concat_src_idx(_, _, _, _, _, _)
concat_src_idx(src, strides, linear_idx, axis, src_axis, n) ==
    IF n = 0 THEN 0
    ELSE concat_src_idx(src, strides, linear_idx, axis, src_axis, n - 1)
         + (IF n - 1 = axis THEN src_axis * src.strides[n]
            ELSE concat_index(strides, linear_idx, n - 1) * src.strides[n])

RECURSIVE concat_loop(_, _, _, _, _, _)
concat_loop(data, a, b, axis, strides, n) ==
    IF n = 0 THEN data
    ELSE LET d == concat_loop(data, a, b, axis, strides, n - 1)
             linear_idx == n - 1
             axis_idx == concat_index(strides, linear_idx, axis)
             fromA == axis_idx < a.dimensions[axis + 1]
             src == IF fromA THEN a ELSE b
             src_axis == IF fromA THEN axis_idx ELSE axis_idx - a.dimensions[axis + 1]
             src_idx == concat_src_idx(src, strides, linear_idx, axis, src_axis, src.nd)
         IN  IF a.dtype = ChD THEN CopyD(d, linear_idx, src.data, src_idx)
             ELSE CopyF(d, linear_idx, src.data, src_idx)

ndarray_concat(a, b, axis) ==
    IF IsNull(a) \/ IsNull(b) THEN NullArr
    ELSE IF a.nd # b.nd THEN NullArr
    ELSE IF axis >= a.nd THEN NullArr
    ELSE IF a.dtype # b.dtype THEN NullArr
    ELSE IF \E i \in 1..a.nd : i - 1 # axis /\ a.dimensions[i] # b.dimensions[i] THEN NullArr
    ELSE LET new_dims == [i \in 1..a.nd |->
                             IF i - 1 = axis THEN a.dimensions[i] + b.dimensions[i]
                             ELSE a.dimensions[i]]
             result == ndarray_create(new_dims, a.nd, a.dtype)
             total_elements == ndarray_size(result)
         IN  [result EXCEPT !.data =
                 concat_loop(result.data, a, b, axis, result.strides, total_elements)]

\* ------------------------------------------------- what a call addresses
\* The element indices a call reads from a (ra) and from b (rb) and writes
\* to its result (w), the bytes malloc'ed for its temporary index table
\* (tab) and the bytes of that table its stores reach (tabw).
Acc(ra, rb, w, tab, tabw) == [ra |-> ra, rb |-> rb, w |-> w, tab |-> tab, tabw |-> tabw]
NoAcc == Acc({}, {}, {}, 0, 0)

\* The loop of ndarray_add and ndarray_subtract with n iterations.
arith_access(a, n) ==
    IF a.dtype = ChD \/ a.dtype = ChF
    THEN Acc(0..(n - 1), 0..(n - 1), 0..(n - 1), 0, 0)
    ELSE NoAcc

\* The loop of ndarray_compare: an unknown operator leaves it in its first
\* iteration, after the two reads.
cmp_access(op, n) ==
    IF op \in CmpOps THEN Acc(0..(n - 1), 0..(n - 1), 0..(n - 1), 0, 0)
    ELSE IF n > 0 THEN Acc({0}, {0}, {}, 0, 0)
    ELSE NoAcc

dot_access(a, b) ==
    LET I == 0..(a.dimensions[1] - 1)
        J == 0..(b.dimensions[2] - 1)
        K == 0..(a.dimensions[2] - 1)
    IN  IF a.dtype = ChD \/ a.dtype = ChF
        THEN Acc({i * a.dimensions[2] + k : i \in I, k \in {k \in K : J # {}}},
                 {k * b.dimensions[2] + j : k \in K, j \in {j \in J : I # {}}},
                 {i * b.dimensions[2] + j : i \in I, j \in J}, 0, 0)
        ELSE NoAcc

\* The cells of x that val_a / val_b of ndarray_broadcast_add read.
bcast_reads(x, rows, cols) ==
    {i * x.dimensions[2] + j :
        i \in {i \in 0..(rows - 1) : i < x.dimensions[1]},
        j \in {j \in 0..(cols - 1) : j < x.dimensions[2]}}

bcast_access(a, b) ==
    LET rows == Max(a.dimensions[1], b.dimensions[1])
        cols == Max(a.dimensions[2], b.dimensions[2])
    IN  Acc(bcast_reads(a, rows, cols), bcast_reads(b, rows, cols),
            IF a.dtype = ChD \/ a.dtype = ChF
            THEN {i * cols + j : i \in 0..(rows - 1), j \in 0..(cols - 1)} ELSE {},
            0, 0)

transpose_access(array) ==
    LET I == 0..(array.dimensions[1] - 1)
        J == 0..(array.dimensions[2] - 1)
    IN  IF array.dtype = ChD \/ array.dtype = ChF
        THEN Acc({i * array.dimensions[2] + j : i \in I, j \in J}, {},
                 {j * array.dimensions[1] + i : i \in I, j \in J}, 0, 0)
        ELSE NoAcc

\* ndarray_subsample: the index table has dimensions[0] entries of
\* sizeof(uint64_t) bytes; the fill and the shuffle store to entries
\* 0 .. dimensions[0]-1.
subsample_access(array, n_samples, indices, d1) ==
    LET I == 0..(n_samples - 1)
        J == 0..(d1 - 1)
        copies == array.dtype = ChD \/ array.dtype = ChF
    IN  Acc(IF copies THEN {indices[i + 1] * d1 + j : i \in I, j \in J} ELSE {}, {},
            IF copies THEN {i * d1 + j : i \in I, j \in J} ELSE {},
            array.dimensions[1] * 8, array.dimensions[1] * 8)

\* One iteration of the loop of ndarray_concat: the operand the element
\* comes from and src_idx.
concat_route(a, b, axis, strides, linear_idx) ==
    LET axis_idx == concat_index(strides, linear_idx, axis)
        fromA == axis_idx < a.dimensions[axis + 1]
        src == IF fromA THEN a ELSE b
        src_axis == IF fromA THEN axis_idx ELSE axis_idx - a.dimensions[axis + 1]
    IN  [fromA |-> fromA,
         src_idx |-> concat_src_idx(src, strides, linear_idx, axis, src_axis, src.nd)]

\* ndarray_concat: the index table is malloc(nd * type_size) bytes, and
\* every iteration stores indices[0] .. indices[nd-1] as uint64_t.
concat_access(a, b, axis, result) ==
    LET L == 0..(ndarray_size(result) - 1)
        route(l) == concat_route(a, b, axis, result.strides, l)
    IN  Acc({route(l).src_idx : l \in {l \in L : route(l).fromA}},
            {route(l).src_idx : l \in {l \in L : ~route(l).fromA}},
            L,
            result.nd * calculate_type_size(result.dtype),
            IF L = {} THEN 0 ELSE result.nd * 8)

\* ------------------------------------------------------------- the client
\* The model's client either indexes into one array p it has created and
\* filled (get calls, and at most MaxSets further set calls), or builds two
\* operands a and b and an optional output array out, and calls one
\* operation on them.
\*   shadow  the bytes most recently passed to a set call at each in-bounds
\*           index of p (by row-major position)
\*   clean   no set call on p had an out-of-bounds index
\*   last    what the last get or set call did
\*   res     the last operation called and what it returned
VARIABLES p, shadow, clean, nsets, last, a, b, out, res

vars == <<p, shadow, clean, nsets, last, a, b, out, res>>

Values == {7, 8}

\* Row-major position of a multi-index, from the shape alone.
RECURSIVE ElemStride(_, _, _)
ElemStride(dims, nd, i) ==
    IF i = nd THEN 1 ELSE ElemStride(dims, nd, i + 1) * dims[i + 1]

RECURSIVE LinOf(_, _, _)
LinOf(dims, idx, n) ==
    IF n = 0 THEN 0 ELSE LinOf(dims, idx, n - 1) + idx[n] * ElemStride(dims, Len(dims), n)

IdxOf(dims, lin) ==
    [i \in 1..Len(dims) |-> (lin \div ElemStride(dims, Len(dims), i)) % dims[i]]

InBounds(array, idx) == \A i \in 1..array.nd : idx[i] < array.dimensions[i]

\* The bytes a caller passes to ndarray_set_point for the value v.
Repr(array, v) == Enc(KindOf(array.dtype), calculate_type_size(array.dtype), Val(v))

\* An array whose element at row-major position i was set to base + i, one
\* ndarray_set_point call per element.
RECURSIVE FillTo(_, _, _)
FillTo(array, base, n) ==
    IF n = 0 THEN array
    ELSE ndarray_set_point(FillTo(array, base, n - 1), IdxOf(array.dimensions, n - 1),
                           Repr(array, base + n - 1))

Fill(array, base) == FillTo(array, base, ndarray_size(array))

\* The shapes the client builds: at most MaxElems elements; an empty array
\* has extent 0 on its first axis and 1 on the others.
Shapes ==
    {s \in UNION {[1..r -> 0..MaxDim] : r \in 1..MaxRank} :
        /\ calculate_size(s, Len(s)) <= MaxElems
        /\ (\E i \in 1..Len(s) : s[i] = 0) => (s[1] = 0 /\ \A i \in 2..Len(s) : s[i] = 1)}

\* The shapes of the second operand: any shape of the first operand's rank,
\* and the all-ones shape of every other rank.
PartnerShapes(x) ==
    {s \in Shapes : Len(s) = x.nd \/ \A i \in 1..Len(s) : s[i] = 1}

\* A dtype that differs from dtype, for a second operand of a's shape.
OtherDtype(dtype) == IF dtype = ChD THEN ChF ELSE ChD

\* The output array the client supplies, as it was before the call.
SuppliedOut == Fill(ndarray_create(a.dimensions, a.nd, a.dtype), 21)

NoCall == [op |-> "none", ok |-> FALSE, arr |-> NullArr, arg |-> 0, cmp |-> "",
           indices |-> <<>>, draws |-> <<>>, alloc |-> FALSE, acc |-> NoAcc]
NoAccess == [op |-> "none", inb |-> TRUE, ok |-> TRUE, within |-> TRUE, hit |-> FALSE]

Init ==
    /\ nsets = 0
    /\ clean = TRUE
    /\ last = NoAccess
    /\ res = NoCall
    /\ \/ /\ p \in {Fill(ndarray_create(s, Len(s), dt), 1) : s \in Shapes, dt \in Dtypes}
          /\ shadow = [i \in 1..ndarray_size(p) |-> Repr(p, i)]
          /\ a = NullArr /\ b = NullArr /\ out = NullArr
       \/ /\ p = NullArr
          /\ shadow = <<>>
          /\ a \in {Fill(ndarray_create(s, Len(s), dt), 1) : s \in Shapes, dt \in Dtypes}
          /\ b \in {Fill(ndarray_create(s, Len(s), a.dtype), 11) : s \in PartnerShapes(a)}
                 \cup {Fill(ndarray_create(a.dimensions, a.nd, OtherDtype(a.dtype)), 11)}
          /\ out \in {NullArr, SuppliedOut}

\* The multi-indices the client passes: every axis in bounds or one past it.
Indices(array) ==
    {idx \in [1..array.nd -> 0..MaxDim] : \A i \in 1..array.nd : idx[i] <= array.dimensions[i]}

\* A get or set call that addresses the n bytes at the offset of idx:
\*   inb     idx is in bounds on every axis
\*   ok      the call reported success (the setters return 0, get a pointer)
\*   within  the bytes addressed all lie inside the buffer
\*   hit     some byte addressed lies inside the buffer
Access(op, array, idx, n) ==
    LET offset == OffsetOf(array, idx, array.nd)
    IN  [op |-> op, inb |-> InBounds(array, idx), ok |-> TRUE,
         within |-> offset + n <= Len(array.data),
         hit |-> n > 0 /\ offset < Len(array.data)]

Remember(idx, bytes) ==
    IF InBounds(p, idx)
    THEN [shadow EXCEPT ![LinOf(p.dimensions, idx, p.nd) + 1] = bytes]
    ELSE shadow

SetPoint(idx, v) ==
    /\ ~IsNull(p)
    /\ nsets < MaxSets
    /\ p' = ndarray_set_point(p, idx, Repr(p, v))
    /\ last' = Access("set", p, idx, calculate_type_size(p.dtype))
    /\ shadow' = Remember(idx, Repr(p, v))
    /\ clean' = (clean /\ InBounds(p, idx))
    /\ nsets' = nsets + 1
    /\ UNCHANGED <<a, b, out, res>>

SetPointD(idx, v) ==
    /\ ~IsNull(p)
    /\ nsets < MaxSets
    /\ p' = ndarray_set_point_d(p, idx, v)
    /\ last' = Access("set_d", p, idx, 8)
    /\ shadow' = Remember(idx, Enc("d", 8, Val(v)))
    /\ clean' = (clean /\ InBounds(p, idx))
    /\ nsets' = nsets + 1
    /\ UNCHANGED <<a, b, out, res>>

GetPoint(idx) ==
    /\ ~IsNull(p)
    /\ last' = Access("get", p, idx, calculate_type_size(p.dtype))
    /\ UNCHANGED <<p, shadow, clean, nsets, a, b, out, res>>

\* alloc: the call reached its ndarray_create; acc: what its loops
\* addressed (nothing when it returned from a precondition check).
Call(op, ret, arg, cmp, indices, draws, alloc, acc) ==
    [op |-> op, ok |-> ~IsNull(ret), arr |-> ret, arg |-> arg, cmp |-> cmp,
     indices |-> indices, draws |-> draws, alloc |-> alloc,
     acc |-> IF alloc \/ ~IsNull(ret) THEN acc ELSE NoAcc]

Operands == ~IsNull(a) /\ ~IsNull(b) /\ res = NoCall

\* The outcomes of the rand() % dimensions[0] draws of one shuffle.
Draws(x) ==
    IF IsNull(x) THEN {} ELSE [1..x.dimensions[1] -> 0..(x.dimensions[1] - 1)]

\* What a->dimensions[1] may yield.
Dim1Reads(x) == IF x.nd >= 2 THEN {0} ELSE 0..MaxDim

Add(g) ==
    /\ Operands
    /\ LET r == ndarray_add(out, a, b, g)
       IN  res' = Call("add", r.ret, g, "", <<>>, <<>>, r.alloc,
                       arith_access(a, a.dimensions[1] * Dim1(a, g))) /\ out' = r.out
    /\ UNCHANGED <<p, shadow, clean, nsets, last, a, b>>

Subtract(g) ==
    /\ Operands
    /\ LET r == ndarray_subtract(out, a, b, g)
       IN  res' = Call("subtract", r.ret, g, "", <<>>, <<>>, r.alloc,
                       arith_access(a, a.dimensions[1] * Dim1(a, g))) /\ out' = r.out
    /\ UNCHANGED <<p, shadow, clean, nsets, last, a, b>>

Compare(op, g) ==
    /\ Operands
    /\ LET r == ndarray_compare(out, a, b, op, g)
       IN  res' = Call("compare", r.ret, g, op, <<>>, <<>>, r.alloc,
                       cmp_access(op, a.dimensions[1] * Dim1(a, g))) /\ out' = r.out
    /\ UNCHANGED <<p, shadow, clean, nsets, last, a, b>>

Dot ==
    /\ Operands
    /\ LET r == ndarray_dot(out, a, b)
       IN  res' = Call("dot", r.ret, 0, "", <<>>, <<>>, r.alloc, dot_access(a, b)) /\ out' = r.out
    /\ UNCHANGED <<p, shadow, clean, nsets, last, a, b>>

BroadcastAdd ==
    /\ Operands
    /\ LET r == ndarray_broadcast_add(out, a, b)
       IN  res' = Call("broadcast_add", r.ret, 0, "", <<>>, <<>>, r.alloc,
                       bcast_access(a, b)) /\ out' = r.out
    /\ UNCHANGED <<p, shadow, clean, nsets, last, a, b>>

Transpose ==
    /\ Operands
    /\ LET r == ndarray_transpose(a)
       IN  res' = Call("transpose", r, 0, "", <<>>, <<>>, ~IsNull(r), transpose_access(a))
    /\ UNCHANGED <<p, shadow, clean, nsets, last, a, b, out>>

Subsample(n_samples, draws, g) ==
    /\ Operands
    /\ LET r == ndarray_subsample(a, n_samples, draws, g)
       IN  res' = Call("subsample", r.ret, n_samples, "", r.indices,
                       IF IsNull(r.ret) THEN <<>> ELSE draws, ~IsNull(r.ret),
                       subsample_access(a, n_samples, r.indices, Dim1(a, g)))
    /\ UNCHANGED <<p, shadow, clean, nsets, last, a, b, out>>

Concat(axis) ==
    /\ Operands
    /\ LET r == ndarray_concat(a, b, axis)
       IN  res' = Call("concat", r, axis, "", <<>>, <<>>, ~IsNull(r),
                       concat_access(a, b, axis, r))
    /\ UNCHANGED <<p, shadow, clean, nsets, last, a, b, out>>

Next ==
    \/ \E idx \in Indices(p), v \in Values : SetPoint(idx, v)
    \/ \E idx \in Indices(p), v \in Values : p.dtype = ChD /\ SetPointD(idx, v)
    \/ \E idx \in Indices(p) : GetPoint(idx)
    \/ \E g \in Dim1Reads(a) : Add(g)
    \/ \E g \in Dim1Reads(a) : Subtract(g)
    \/ \E op \in CmpOps \cup {"!"}, g \in Dim1Reads(a) : Compare(op, g)
    \/ Dot
    \/ BroadcastAdd
    \/ Transpose
    \/ \E n_samples \in 0..(MaxDim + 1), draws \in Draws(a), g \in Dim1Reads(a) :
          Subsample(n_samples, draws, g)
    \/ \E axis \in 0..MaxRank : Concat(axis)

Spec == Init /\ [][Next]_vars

\* ---------------------------------------------------------------- the claims
\* The element at row-major position lin of x, as raw bytes and decoded.
ElemBytes(x, lin) ==
    ReadBytes(x.data, lin * calculate_type_size(x.dtype), calculate_type_size(x.dtype))

At(x, lin) == Dec(KindOf(x.dtype), calculate_type_size(x.dtype), ElemBytes(x, lin))

StrideInv(x) ==
    IsNull(x) \/
        /\ x.strides[x.nd] = calculate_type_size(x.dtype)
        /\ \A i \in 1..(x.nd - 1) : x.strides[i] = x.strides[i + 1] * x.dimensions[i + 1]
        /\ Len(x.strides) = x.nd /\ Len(x.dimensions) = x.nd

SameMeta(x, y) ==
    x.nd = y.nd /\ x.dtype = y.dtype /\ x.dimensions = y.dimensions /\ x.strides = y.strides

\* C1: every array made by ndarray_create, and every array an operation
\* returns, has strides[rank-1] = elementSize(dtype) and
\* strides[i] = strides[i+1] * shape[i+1]; a get or set call leaves the
\* array's rank, dtype, shape and strides as they were.
C1_StrideInvariant ==
    /\ [](StrideInv(p) /\ StrideInv(a) /\ StrideInv(b) /\ StrideInv(out) /\ StrideInv(res.arr))
    /\ [][SameMeta(p, p')]_vars

\* A set call has acted on an array of rank >= 2 with more than one column.
C1_Witness == last.op = "set" /\ p.nd >= 2 /\ p.dimensions[2] > 1 /\ p.dimensions[1] > 1

InBoundsIndices(x) == {idx \in [1..x.nd -> 0..MaxDim] : InBounds(x, idx)}

ByteRange(x, idx) ==
    LET offset == ndarray_get_point(x, idx).offset
    IN  offset..(offset + calculate_type_size(x.dtype) - 1)

\* C2: as long as every set call on p had an in-bounds index, a get at any
\* in-bounds index yields the bytes most recently set there, and distinct
\* in-bounds indices address disjoint byte ranges inside the buffer.
C2_SetGetRoundTrip ==
    (~IsNull(p) /\ clean) =>
        /\ \A idx \in InBoundsIndices(p) :
              /\ ndarray_get_point(p, idx).bytes = shadow[LinOf(p.dimensions, idx, p.nd) + 1]
              /\ ByteRange(p, idx) \subseteq 0..(Len(p.data) - 1)
        /\ \A i1, i2 \in InBoundsIndices(p) :
              i1 # i2 => ByteRange(p, i1) \cap ByteRange(p, i2) = {}

\* An in-bounds set call has replaced one element of an array that has
\* other elements on another row.
C2_Witness ==
    /\ last.op = "set" /\ last.inb /\ clean
    /\ p.nd >= 2 /\ p.dimensions[1] > 1 /\ p.dimensions[2] > 1
    /\ \E i \in 1..Len(shadow) : shadow[i] # Repr(p, i)

\* The operands pass the rank, dtype and shape checks of add, subtract and
\* compare.
Compatible == a.nd = b.nd /\ a.dtype = b.dtype /\ SameShape(a, b)

FloatTypes == {ChD, ChF}

RECURSIVE DotCell(_, _, _, _, _)
DotCell(x, y, i, j, n) ==
    IF n = 0 THEN 0
    ELSE DotCell(x, y, i, j, n - 1)
         + At(x, i * x.dimensions[2] + (n - 1)).v * At(y, (n - 1) * y.dimensions[2] + j).v

\* C3: dot of A[m,k] and B[k,n] (double or float), called without an output
\* array, returns an array of shape [m,n] whose cell (i,j) is the sum over
\* k of A[i,k] * B[k,j].
C3_DotShapeAndCells ==
    (/\ res.op = "dot" /\ IsNull(out)
     /\ a.nd = 2 /\ b.nd = 2 /\ a.dtype = b.dtype /\ a.dtype \in FloatTypes
     /\ a.dimensions[2] = b.dimensions[1])
    => /\ res.ok
       /\ res.arr.dimensions = <<a.dimensions[1], b.dimensions[2]>>
       /\ \A i \in 0..(a.dimensions[1] - 1), j \in 0..(b.dimensions[2] - 1) :
             At(res.arr, i * b.dimensions[2] + j) = Val(DotCell(a, b, i, j, a.dimensions[2]))

\* The multi-indices of a shape.
IndicesOf(dims) == {idx \in [1..Len(dims) -> 0..(2 * MaxDim)] :
                       \A i \in 1..Len(dims) : idx[i] < dims[i]}

ConcatDims(axis) ==
    [i \in 1..a.nd |-> IF i - 1 = axis THEN a.dimensions[i] + b.dimensions[i]
                       ELSE a.dimensions[i]]

\* C4: concat(A, B, axis) on arrays of equal rank and dtype (double or float
\* already) that agree on every other axis returns an array of A's shape with shape[axis] =
\* A.shape[axis] + B.shape[axis], whose element at each multi-index is A's
\* element there when the axis coordinate is below A.shape[axis], and
\* otherwise B's element at the index with that coordinate reduced by
\* A.shape[axis].
C4_ConcatElements ==
    (/\ res.op = "concat" /\ a.nd = b.nd /\ a.dtype = b.dtype /\ res.arg < a.nd
     /\ a.dtype \in FloatTypes
     /\ \A i \in 1..a.nd : i - 1 # res.arg => a.dimensions[i] = b.dimensions[i])
    => /\ res.ok
       /\ res.arr.dimensions = ConcatDims(res.arg)
       /\ \A idx \in IndicesOf(ConcatDims(res.arg)) :
             LET k == res.arg + 1
                 lin == LinOf(ConcatDims(res.arg), idx, a.nd)
             IN  ElemBytes(res.arr, lin) =
                     IF idx[k] < a.dimensions[k]
                     THEN ElemBytes(a, LinOf(a.dimensions, idx, a.nd))
                     ELSE ElemBytes(b, LinOf(b.dimensions,
                                             [idx EXCEPT ![k] = idx[k] - a.dimensions[k]], b.nd))

\* The tags the header documents: 'd', 'f' and 'i'.
HeaderTypes == {ChD, ChF, ChI}

\* C5: transpose of a rank-2 array A[r,c] of a documented dtype returns
\* T[c,r] with T[j,i] = A[i,j], and transposing T gives A back; transpose
\* of an array of another rank fails.
C5_TransposeInvolution ==
    res.op = "transpose" =>
        IF a.nd # 2 THEN ~res.ok
        ELSE a.dtype \in HeaderTypes =>
            /\ res.ok
            /\ res.arr.dimensions = <<a.dimensions[2], a.dimensions[1]>>
            /\ \A i \in 0..(a.dimensions[1] - 1), j \in 0..(a.dimensions[2] - 1) :
                  ElemBytes(res.arr, j * a.dimensions[1] + i)
                      = ElemBytes(a, i * a.dimensions[2] + j)
            /\ ndarray_transpose(res.arr).dimensions = a.dimensions
            /\ ndarray_transpose(res.arr).data = a.data

\* The part of C5 the code satisfies: the same statement for the dtypes
\* 'd' and 'f'.
TransposeOfFloatTypes ==
    (res.op = "transpose" /\ a.nd = 2 /\ a.dtype \in FloatTypes) =>
        /\ res.ok
        /\ res.arr.dimensions = <<a.dimensions[2], a.dimensions[1]>>
        /\ \A i \in 0..(a.dimensions[1] - 1), j \in 0..(a.dimensions[2] - 1) :
              ElemBytes(res.arr, j * a.dimensions[1] + i) = ElemBytes(a, i * a.dimensions[2] + j)
        /\ ndarray_transpose(res.arr).dimensions = a.dimensions
        /\ ndarray_transpose(res.arr).data = a.data

IsPermutation(indices, n) ==
    Len(indices) = n /\ {indices[i] : i \in 1..n} = 0..(n - 1)

\* Elements per row (one index of the first axis).
RowSize(x) == calculate_size(x.dimensions, x.nd) \div x.dimensions[1]

\* C6: subsample(A, n) of a double or float array of rank 2 or more fails
\* when n > A.shape[0];
\* otherwise it returns an array with shape[0] = n and A's other extents,
\* whose row i is row indices[i] of A, the index table being a permutation
\* of 0 .. A.shape[0]-1 after every swap.
C6_SubsampleRows ==
    (res.op = "subsample" /\ a.dtype \in FloatTypes /\ a.nd >= 2) =>
        IF res.arg > a.dimensions[1] THEN ~res.ok
        ELSE /\ res.ok
             /\ res.arr.dimensions = [i \in 1..a.nd |-> IF i = 1 THEN res.arg ELSE a.dimensions[i]]
             /\ \A k \in 0..a.dimensions[1] :
                   IsPermutation(shuffle([i \in 1..a.dimensions[1] |-> i - 1], res.draws, k),
                                 a.dimensions[1])
             /\ res.arg > 0 =>
                   \A i \in 0..(res.arg - 1), j \in 0..(RowSize(a) - 1) :
                       ElemBytes(res.arr, i * RowSize(a) + j)
                           = ElemBytes(a, res.indices[i + 1] * RowSize(a) + j)

\* The part of C6 the code satisfies: the same statement for rank-2 arrays.
SubsampleOfMatrices ==
    (res.op = "subsample" /\ a.dtype \in FloatTypes /\ a.nd = 2) =>
        IF res.arg > a.dimensions[1] THEN ~res.ok
        ELSE /\ res.ok
             /\ res.arr.dimensions = <<res.arg, a.dimensions[2]>>
             /\ \A k \in 0..a.dimensions[1] :
                   IsPermutation(shuffle([i \in 1..a.dimensions[1] |-> i - 1], res.draws, k),
                                 a.dimensions[1])
             /\ res.arg > 0 =>
                   \A i \in 0..(res.arg - 1), j \in 0..(a.dimensions[2] - 1) :
                       ElemBytes(res.arr, i * a.dimensions[2] + j)
                           = ElemBytes(a, res.indices[i + 1] * a.dimensions[2] + j)

\* C7: add and subtract on double or float arrays of equal rank and shape,
\* of any rank >= 1, write every one of the product(shape) elements of the
\* result: element i is a[i] + b[i], respectively a[i] - b[i].
C7_ElementwiseAllElements ==
    (res.op \in {"add", "subtract"} /\ Compatible /\ a.dtype \in FloatTypes) =>
        /\ res.ok
        /\ \A i \in 0..(ndarray_size(a) - 1) :
              At(res.arr, i) = Val(IF res.op = "add" THEN At(a, i).v + At(b, i).v
                                                     ELSE At(a, i).v - At(b, i).v)

\* The cell (i,j) of x, or 0 outside x's extent.
Padded(x, i, j) ==
    IF i < x.dimensions[1] /\ j < x.dimensions[2] THEN At(x, i * x.dimensions[2] + j).v ELSE 0

\* C8: broadcastAdd on rank-2 double or float arrays, called without an
\* output array, returns an array of max(A.rows, B.rows) by
\* max(A.cols, B.cols) whose cell (i,j) is the sum of A's and B's cells,
\* a cell outside an operand's extent counting as 0.
C8_BroadcastAddCells ==
    (/\ res.op = "broadcast_add" /\ IsNull(out)
     /\ a.nd = 2 /\ b.nd = 2 /\ a.dtype = b.dtype /\ a.dtype \in FloatTypes)
    => LET rows == Max(a.dimensions[1], b.dimensions[1])
           cols == Max(a.dimensions[2], b.dimensions[2])
       IN  /\ res.ok
           /\ res.arr.dimensions = <<rows, cols>>
           /\ \A i \in 0..(rows - 1), j \in 0..(cols - 1) :
                 At(res.arr, i * cols + j) = Val(Padded(a, i, j) + Padded(b, i, j))

\* C9: a get or set call with an out-of-bounds index fails and touches no
\* byte of the array, and no get or set call addresses a byte outside the
\* buffer.
C9_IndexChecked ==
    last.op # "none" =>
        /\ last.within
        /\ ~last.inb => (~last.ok /\ ~last.hit)

\* C10: compare with an operator other than '>', '<', '=' fails for every
\* pair of operands that pass the rank, dtype and shape checks, empty
\* arrays included, and leaves a caller-supplied output array as it was:
\* not written and not released.
C10_CompareUnknownOp ==
    (res.op = "compare" /\ res.cmp \notin CmpOps /\ Compatible) =>
        /\ ~res.ok
        /\ out \in {NullArr, SuppliedOut}

\* Element i of x holds one whole value: of x's dtype, or the int truth
\* value that compare stores.
WholeElement(x, i) ==
    \/ At(x, i).ok
    \/ Dec("n", 4, ReadBytes(x.data, 4 * i, 4)).ok

\* C11: an operation applied to operands whose dtype is not 'd' or 'f' (the
\* tag 'i' or an unrecognized tag) either fails or returns an array in
\* which every element is one whole value of the array's dtype (for add and
\* subtract: the sum, respectively the difference, of the operands'
\* elements); it never returns an array with elements left unwritten or
\* copied with another dtype's width.
C11_UnsupportedDtype ==
    (res.op # "none" /\ res.ok /\ a.dtype \notin FloatTypes) =>
        \A i \in 0..(ndarray_size(res.arr) - 1) :
            IF res.op \in {"add", "subtract"}
            THEN At(res.arr, i) = Val(IF res.op = "add" THEN At(a, i).v + At(b, i).v
                                                        ELSE At(a, i).v - At(b, i).v)
            ELSE WholeElement(res.arr, i)

\* The operands of the last call violate the rank, dtype or shape
\* precondition of the operation called.
PreconditionViolated ==
    \/ /\ res.op \in {"add", "subtract", "compare"}
       /\ \/ a.nd # b.nd
          \/ a.dtype # b.dtype
          \/ \E i \in 1..a.nd : a.dimensions[i] # b.dimensions[i]
    \/ /\ res.op = "dot"
       /\ \/ a.nd # 2 \/ b.nd # 2
          \/ a.dtype # b.dtype
          \/ a.dimensions[2] # b.dimensions[1]
    \/ /\ res.op = "concat"
       /\ \/ a.nd # b.nd
          \/ a.dtype # b.dtype
          \/ res.arg >= a.nd
          \/ \E i \in 1..a.nd : i - 1 # res.arg /\ a.dimensions[i] # b.dimensions[i]

\* x holds the values the client stored in it: base, base + 1, ...
AsFilled(x, base) == x = Fill(ndarray_create(x.dimensions, x.nd, x.dtype), base)

\* C12: add, subtract, compare, dot or concat called on operands that
\* violate its rank, dtype or shape precondition returns failure, has not
\* reached its allocation of a result, and leaves both operands and a
\* caller-supplied output array holding what they held before the call.
C12_PreconditionFailure ==
    PreconditionViolated =>
        /\ ~res.ok
        /\ ~res.alloc
        /\ AsFilled(a, 1) /\ AsFilled(b, 11)
        /\ IsNull(out) \/ (out.live /\ AsFilled(out, 21))

\* add, subtract or compare was called with a caller-supplied output array
\* on operands of equal rank and dtype that differ only on the second axis,
\* and failed.
C12_Witness ==
    /\ res.op \in {"add", "subtract", "compare"} /\ ~res.ok /\ ~IsNull(out)
    /\ a.nd = b.nd /\ a.nd >= 2 /\ a.dtype = b.dtype
    /\ a.dimensions[1] = b.dimensions[1] /\ a.dimensions[2] # b.dimensions[2]

\* C13: in every call of an operation that passes its precondition checks
\* and allocates its own result, every element index read from an operand
\* is below the operand's element count, every element index written to
\* the result is below the result's element count, and the stores to the
\* temporary index table stay within the bytes allocated for it.
C13_MemorySafety ==
    (res.op # "none" /\ res.alloc) =>
        /\ res.acc.ra \subseteq 0..(ndarray_size(a) - 1)
        /\ res.acc.rb \subseteq 0..(ndarray_size(b) - 1)
        /\ res.ok => res.acc.w \subseteq 0..(ndarray_size(res.arr) - 1)
        /\ res.acc.tabw <= res.acc.tab

====
